---- MODULE Spec2Model ----
(***************************************************************************)
(* LDB recordset decoder (src/recordset.c) and dump driver (src/dump.c).   *)
(*                                                                         *)
(* Memory is modelled byte for byte.  A buffer is a run-length encoded     *)
(* byte string: a sequence of runs [n |-> count, b |-> byte], kept in      *)
(* normal form (no empty run, no two adjacent runs of the same byte), so   *)
(* that a record of 65503 bytes is one run and equal contents are equal    *)
(* values.  Offsets are 0-based as in C.                                   *)
(***************************************************************************)
EXTENDS Integers, Sequences, FiniteSets, TLC

(***************************************************************************)
(* Program constants                                                       *)
(***************************************************************************)
LDB_KEY_LN == 4
LDB_MAX_REC_LN == 65535
\* the last value of a key byte
LastByte == 255

(***************************************************************************)
(* Bounds of the model                                                     *)
(***************************************************************************)
\* longest node chain stored for a key
MaxChain == 2

(***************************************************************************)
(* Byte buffers                                                            *)
(***************************************************************************)
RECURSIVE Norm(_)
Norm(buf) ==
    IF buf = <<>> THEN <<>>
    ELSE IF Head(buf).n = 0 THEN Norm(Tail(buf))
    ELSE LET rest == Norm(Tail(buf)) IN
         IF rest # <<>> /\ Head(rest).b = Head(buf).b
         THEN <<[n |-> Head(buf).n + Head(rest).n, b |-> Head(buf).b]>> \o Tail(rest)
         ELSE <<Head(buf)>> \o rest

\* the buffer holding the bytes of the sequence s
Lit(s) == Norm([i \in 1..Len(s) |-> [n |-> 1, b |-> s[i]]])

\* n bytes of value b
Fill(n, b) == Norm(<<[n |-> n, b |-> b]>>)

Cat(a, b) == Norm(a \o b)

RECURSIVE BufLen(_)
BufLen(buf) == IF buf = <<>> THEN 0 ELSE Head(buf).n + BufLen(Tail(buf))

\* the byte at offset i (i < BufLen(buf))
RECURSIVE ByteAt(_, _)
ByteAt(buf, i) ==
    IF i < Head(buf).n THEN Head(buf).b ELSE ByteAt(Tail(buf), i - Head(buf).n)

\* buf + k
RECURSIVE Drop(_, _)
Drop(buf, k) ==
    IF k = 0 \/ buf = <<>> THEN buf
    ELSE IF Head(buf).n <= k THEN Drop(Tail(buf), k - Head(buf).n)
    ELSE <<[n |-> Head(buf).n - k, b |-> Head(buf).b]>> \o Tail(buf)

\* the first k bytes of buf
RECURSIVE Take(_, _)
Take(buf, k) ==
    IF k = 0 \/ buf = <<>> THEN <<>>
    ELSE IF Head(buf).n <= k THEN <<Head(buf)>> \o Take(Tail(buf), k - Head(buf).n)
    ELSE <<[n |-> k, b |-> Head(buf).b]>>

\* the len bytes at buf + off
Slice(buf, off, len) == Take(Drop(buf, off), len)

\* memcpy(dst, src, BufLen(src)): src laid over the start of dst
Overlay(src, dst) == Cat(src, Drop(dst, BufLen(src)))

(***************************************************************************)
(* Integer codec (big-endian)                                              *)
(***************************************************************************)
uint16_read(buf, off) == ByteAt(buf, off) * 256 + ByteAt(buf, off + 1)

uint16_bytes(v) == Lit(<<(v \div 256) % 256, v % 256>>)

uint32_bytes(v) ==
    Lit(<<(v \div 16777216) % 256, (v \div 65536) % 256, (v \div 256) % 256, v % 256>>)

\* uint32_write(ptr, value) on the buffer at ptr
uint32_write(buf, v) == Overlay(uint32_bytes(v), buf)

(***************************************************************************)
(* Stored data.  A table is [key_ln, rec_ln]; rec_ln = 0 means variable-   *)
(* length records.  A stored node is [bytes, kind, groups]: bytes is what  *)
(* the node source returns, and for a node built from its layout           *)
(* (kind = "wf") groups lists its dataset groups [subkey, recs], recs the  *)
(* record payloads in order.                                               *)
(***************************************************************************)
Tables == { [key_ln |-> 4, rec_ln |-> 0],
            [key_ln |-> 5, rec_ln |-> 0],
            [key_ln |-> 4, rec_ln |-> 2] }

SubkeyLn(t) == (t.key_ln - LDB_KEY_LN) % 256

PrimaryKey == <<0, 0, 0, 1>>

\* the keys queried: the primary key, then subkey byte 1, 2 or 3
KeysOf(t) == IF SubkeyLn(t) = 0 THEN { PrimaryKey }
             ELSE { PrimaryKey \o <<v>> : v \in 1..3 }

\* record payloads: empty, short, the longest one delivered, the shortest one dropped
P0 == <<>>
P1 == Lit(<<7>>)
P2 == Lit(<<8, 9>>)
PMax == Fill(LDB_MAX_REC_LN - 33, 6)
POver == Fill(LDB_MAX_REC_LN - 32, 5)

RECURSIVE EncDataset(_)
EncDataset(recs) ==
    IF recs = <<>> THEN <<>>
    ELSE Cat(Cat(uint16_bytes(BufLen(Head(recs))), Head(recs)), EncDataset(Tail(recs)))

EncGroup(g) ==
    Cat(Lit(g.subkey), Cat(uint16_bytes(BufLen(EncDataset(g.recs))), EncDataset(g.recs)))

RECURSIVE EncNode(_)
EncNode(groups) ==
    IF groups = <<>> THEN <<>> ELSE Cat(EncGroup(Head(groups)), EncNode(Tail(groups)))

WfNode(groups) == [bytes |-> EncNode(groups), kind |-> "wf", groups |-> groups]

RawNode(kind, s) == [bytes |-> Lit(s), kind |-> kind, groups |-> <<>>]

\* the subkey of value v in a table of subkey length sl (0 or 1)
Sk(sl, v) == IF sl = 0 THEN <<>> ELSE <<v>>

G(sl, v, recs) == [subkey |-> Sk(sl, v), recs |-> recs]

\* nodes of a variable-length table
VarNodes(sl) ==
    { WfNode(<<G(sl, 1, <<P1, P2>>), G(sl, 2, <<P2, P1>>)>>),
      WfNode(<<G(sl, 1, <<P0, P1>>)>>),
      WfNode(<<G(sl, 2, <<POver, P1>>)>>),
      WfNode(<<G(sl, 1, <<PMax>>)>>),
      WfNode(<<G(sl, 2, <<>>)>>),
      WfNode(<<>>),
      \* dataset size 9 in a node with 3 bytes left; a node ending inside a header
      RawNode("badgroup", Sk(sl, 1) \o <<0, 9, 0, 1, 7>>),
      RawNode("badgroup", Sk(sl, 1) \o <<0>>),
      \* groups fit, but a record of 5 bytes in a dataset of 3; a dataset of 1 byte
      RawNode("badrecord", Sk(sl, 1) \o <<0, 3, 0, 5, 7>>),
      RawNode("badrecord", Sk(sl, 1) \o <<0, 1, 0>>) }

\* nodes of a table of 2-byte records: none, one, two records
FixedNodes ==
    { RawNode("fixed", <<>>), RawNode("fixed", <<1, 2>>), RawNode("fixed", <<1, 2, 3, 4>>) }

NodesOf(t) == IF t.rec_ln # 0 THEN FixedNodes ELSE VarNodes(SubkeyLn(t))

Chains(t) == UNION { [1..n -> NodesOf(t)] : n \in 0..MaxChain }

(***************************************************************************)
(* State                                                                   *)
(***************************************************************************)
VARIABLES
    table, key, db,              \* the table, the key queried, primary key -> node chain
    api,                         \* the entry point running: "none", "fetch", "key_exists",
                                 \* "get_first_record", "dump"
    sector, skip_subkey, handler,\* arguments of ldb_fetch_recordset (sector: not NULL)
    pc,                          \* position in ldb_fetch_recordset
    node, next, node_size, node_ptr, subkey, dataset_size, dataset_ptr, records, done,
    calls,                       \* the handler invocations of this call, in order
    record, writes,              \* the caller's buffer (void_ptr) and the writes to it
    heap,                        \* allocations, frees, file opens and closes so far
    ret,                         \* value returned by ldb_fetch_recordset
    found,                       \* result of ldb_key_exists: "unknown", "yes", "no"
    reads, validated, hiRead,    \* node reads, validator calls, highest offset read
    shards, mapbits,             \* leading bytes with a sector on disk; keys the map reports
    dpc, k0, kidx, live,         \* ldb_dump: position, k0, last (k1,k2,k3) probed, sectors held
    dlog, hits,                  \* ldb_dump: decoder calls made; keys the handler was reached for
    image,                       \* ldb_dump: the bytes of the sector loaded (none: empty)
    loads, flushes,              \* ldb_dump: sector load attempts, fflush calls
    prev                         \* the call made before this one: its invocations and count

inputs == <<table, key, db>>
args   == <<api, sector, skip_subkey, handler>>
locals == <<node, next, node_size, node_ptr, subkey, dataset_size, dataset_ptr, records, done>>
effects == <<calls, record, writes, heap, ret, found, reads, validated, hiRead>>
dumpvars == <<shards, mapbits, dpc, k0, kidx, live, image, dlog, hits, loads, flushes>>
vars == <<inputs, args, pc, locals, effects, dumpvars, prev>>

\* the caller's record buffer before the call
CallerBuffer == Fill(LDB_MAX_REC_LN + 4, 170)

\* calloc(LDB_MAX_REC_LN + 1, 1)
Calloc == Fill(LDB_MAX_REC_LN + 1, 0)

subkey_ln == SubkeyLn(table)

StoreOf(k) ==
    LET p == SubSeq(k, 1, LDB_KEY_LN) IN IF p \in DOMAIN db THEN db[p] ELSE <<>>

\* no sector: the NULL pointer
NoSector == <<>>

\* a sector image that starts with the first node stored under key k
SectorImage(k) ==
    IF StoreOf(k) = <<>> THEN Calloc ELSE Overlay(StoreOf(k)[1].bytes, Calloc)

\* the bytes a sector image of leading byte b may hold: one buffer for all the keys
\* of the shard, starting with the first node of one of the keys that hold data
\* (which one is the loader's layout), all zero when none does
ImagesOf(b) ==
    LET ks == { k \in DOMAIN db : k[1] = b /\ db[k] # <<>> }
    IN  IF ks = {} THEN { Calloc } ELSE { SectorImage(k) : k \in ks }

(***************************************************************************)
(* Collaborators of the decoder                                            *)
(***************************************************************************)
\* ldb_node_read(sector, table, ldb_sector, ptr, key, &node_size, &node, 0): the node
\* at cursor ptr of the key's chain (0: the first one), its size and the cursor of
\* the next one (0: none).  Read from disk, the node's bytes are laid over the
\* scratch buffer; in a sector image each node starts a zero-padded slot.
ldb_node_read(sec, ptr, k, buf) ==
    LET chain == StoreOf(k)
        idx == IF ptr = 0 THEN 1 ELSE ptr
    IN  IF idx > Len(chain)
        THEN [next |-> 0, node_size |-> 0, node |-> buf]
        ELSE [next |-> IF idx < Len(chain) THEN idx + 1 ELSE 0,
              node_size |-> BufLen(chain[idx].bytes),
              node |-> Overlay(chain[idx].bytes, IF sec THEN Calloc ELSE buf)]

\* ldb_validate_node(node, node_size, subkey_ln): every dataset group, header and
\* dataset, lies inside the node
RECURSIVE ValidateFrom(_, _, _, _)
ValidateFrom(buf, size, sl, p) ==
    IF p >= size THEN TRUE
    ELSE IF p + sl + 2 > size THEN FALSE
    ELSE LET q == p + sl + 2 + uint16_read(buf, p + sl) IN
         IF q > size THEN FALSE ELSE ValidateFrom(buf, size, sl, q)

ldb_validate_node(buf, size, sl) == ValidateFrom(buf, size, sl, 0)

(***************************************************************************)
(* Handlers                                                                *)
(***************************************************************************)
\* the values handler h may return for a record of datalen bytes; "any" is a
\* caller's handler, "never_stop" one that always continues, "as_before" the
\* handler of the call before, answering its n-th invocation as it did then
HandlerReturn(h, datalen) ==
    CASE h = "ldb_key_exists_handler" -> { TRUE }
      [] h = "ldb_get_first_record_handler" -> { datalen # 0 }
      [] h = "never_stop" -> { FALSE }
      [] h = "as_before" /\ records < Len(prev.calls) -> { prev.calls[records + 1].ret }
      [] OTHER -> BOOLEAN

\* the caller's buffer after handler h ran on the datalen bytes at data
HandlerBuffer(h, buf, data, datalen) ==
    IF h = "ldb_get_first_record_handler" /\ datalen # 0
    THEN Overlay(Cat(uint32_bytes(datalen), Slice(data, 0, datalen)), buf)
    ELSE buf

HandlerWrites(h, datalen) ==
    IF h = "ldb_get_first_record_handler" /\ datalen # 0 THEN 1 ELSE 0

\* the index taken after the increment: ++records
IterationPreIncrement(count) == count + 1

\* lines 74 and 112: the value of records++ handed to the handler
Iteration(count) == count

\* only the records the handler let pass are counted
CountedIfContinued(count, r) == IF r THEN count ELSE count + 1

\* lines 74 and 112, records++: every invocation counts, whatever it returns
Counted(count, r) == count + 1

\* done = ldb_record_handler(key, subkey, subkey_ln, data, datalen, records++, void_ptr)
\* with subkey and data given as offsets into node, and r the value returned
Invoke(sknull, sk, skl, off, datalen, r) ==
    /\ r \in HandlerReturn(handler, datalen)
    /\ calls' = Append(calls, [read |-> reads, subkey_null |-> sknull, subkey |-> sk,
                               subkey_ln |-> skl, subkey_bytes |-> Slice(node, sk, skl),
                               data |-> off, datalen |-> datalen,
                               payload |-> Slice(node, off, datalen),
                               iteration |-> Iteration(records), ret |-> r,
                               ds_from |-> IF sknull THEN 0 ELSE node_ptr,
                               ds_to |-> IF sknull THEN node_size
                                         ELSE node_ptr + dataset_size])
    /\ record' = HandlerBuffer(handler, record, Drop(node, off), datalen)
    /\ writes' = writes + HandlerWrites(handler, datalen)
    /\ records' = Counted(records, r)
    /\ done' = r

(***************************************************************************)
(* ldb_fetch_recordset                                                     *)
(***************************************************************************)
\* the test on the cursor inverted: an empty node that has a successor
EndOfListNextSet(ns, nx) == ns = 0 /\ nx # 0

\* line 71: the read returned no node and no cursor
EndOfList(ns, nx) == ns = 0 /\ nx = 0

\* line 84
GroupLoop(np, ns, dn) == np < ns /\ ~dn

\* line 102
RecordLoop(dp, ds) == dp < ds

\* the subkey compared against the start of the key instead of key + 4
KeyMatchedFromKeyStart(skip, sl, buf, sk, k) ==
    IF ~skip /\ sl # 0 THEN Slice(buf, sk, sl) = Lit(SubSeq(k, 1, sl)) ELSE TRUE

\* lines 95-96: the subkey at offset sk of buf against key[4 .. 4 + sl)
KeyMatched(skip, sl, buf, sk, k) ==
    IF ~skip /\ sl # 0
    THEN Slice(buf, sk, sl) = Lit(SubSeq(k, LDB_KEY_LN + 1, LDB_KEY_LN + sl))
    ELSE TRUE

\* the length test without its margin of 32
RecordFitsNoMargin(record_size) == record_size < LDB_MAX_REC_LN

\* line 111
RecordFits(record_size) == record_size + 32 < LDB_MAX_REC_LN

\* the cursor moved by the record's length only, its length field not stepped over
RecordEndNoHeader(dp, record_size) == dp + record_size

\* lines 108 and 115: the dataset cursor after a record, dataset_ptr += 2 and
\* dataset_ptr += record_size
RecordEnd(dp, record_size) == dp + 2 + record_size

\* line 122
LoopAgain(nx, dn) == nx # 0 /\ ~dn

Max(a, b) == IF a > b THEN a ELSE b

\* a key counts as present from the second record on
KeyExistsMoreThanOne(count) == IF count > 1 THEN "yes" ELSE "no"

\* line 195: ldb_fetch_recordset(...) > 0
KeyExistsResult(count) == IF count > 0 THEN "yes" ELSE "no"

\* the node buffer allocated before the open is tested
AcquireBufferFirst(h, sec, opened) ==
    IF sec THEN h
    ELSE IF opened THEN [h EXCEPT !.opens = @ + 1, !.allocs = @ + 1]
    ELSE [h EXCEPT !.allocs = @ + 1]

\* lines 51-57: with a sector nothing is acquired; without one the file is opened
\* and, if that succeeded, the node buffer allocated
Acquire(h, sec, opened) ==
    IF sec THEN h
    ELSE IF opened THEN [h EXCEPT !.opens = @ + 1, !.allocs = @ + 1]
    ELSE h

\* lines 47-65: entry of ldb_fetch_recordset from entry point a; with a sector
\* (sec, its bytes img) node is the sector itself (line 51), without one a fresh
\* buffer (line 56);
\* opened: ldb_open succeeds (consulted only without a sector)
Enter(a, sec, img, skip, h, opened) ==
    /\ api' = a
    /\ sector' = sec
    /\ skip_subkey' = skip
    /\ handler' = h
    /\ node' = (IF sec THEN img ELSE Calloc)
    /\ next' = 0
    /\ node_size' = 0
    /\ node_ptr' = 0
    /\ subkey' = 0
    /\ dataset_size' = 0
    /\ dataset_ptr' = 0
    /\ records' = 0
    /\ done' = FALSE
    /\ calls' = <<>>
    /\ record' = CallerBuffer
    /\ writes' = 0
    /\ reads' = 0
    /\ validated' = 0
    /\ hiRead' = 0 - 1
    /\ heap' = Acquire(heap, sec, opened)
    /\ IF sec \/ opened
       THEN /\ pc' = "read"
            /\ UNCHANGED <<ret, found>>
       ELSE /\ pc' = "returned"
            /\ ret' = 0
            /\ found' = IF a = "key_exists" THEN KeyExistsResult(0) ELSE found

\* line 70
ReadNode ==
    /\ pc = "read"
    /\ LET r == ldb_node_read(sector, next, key, node) IN
        /\ next' = r.next
        /\ node_size' = r.node_size
        /\ node' = r.node
    /\ reads' = reads + 1
    /\ hiRead' = 0 - 1
    /\ pc' = "node"
    /\ UNCHANGED <<prev, dumpvars, inputs, args, node_ptr, subkey, dataset_size, dataset_ptr, records, done,
                   calls, record, writes, heap, ret, found, validated>>

\* line 71: break
EndOfChain ==
    /\ pc = "node"
    /\ EndOfList(node_size, next)
    /\ pc' = "cleanup"
    /\ UNCHANGED <<prev, dumpvars, inputs, args, locals, effects>>

\* the handler is given one record of rec_ln bytes instead of the node
FixedNodeOneRecord ==
    /\ pc = "node"
    /\ ~EndOfList(node_size, next)
    /\ table.rec_ln # 0
    /\ \E r \in BOOLEAN : Invoke(TRUE, 0, 0, 0, table.rec_ln, r)
    /\ pc' = "while"
    /\ UNCHANGED <<prev, dumpvars, inputs, args, node, next, node_size, node_ptr, subkey, dataset_size,
                   dataset_ptr, heap, ret, found, reads, validated, hiRead>>

\* line 74: the whole node goes to the handler
FixedNode ==
    /\ pc = "node"
    /\ ~EndOfList(node_size, next)
    /\ table.rec_ln # 0
    /\ \E r \in BOOLEAN : Invoke(TRUE, 0, 0, 0, node_size, r)
    /\ pc' = "while"
    /\ UNCHANGED <<prev, dumpvars, inputs, args, node, next, node_size, node_ptr, subkey, dataset_size,
                   dataset_ptr, heap, ret, found, reads, validated, hiRead>>

\* a rejected node ends the chain walk (break instead of continue)
CorruptNodeBreak ==
    /\ pc = "node"
    /\ ~EndOfList(node_size, next)
    /\ table.rec_ln = 0
    /\ ~ldb_validate_node(node, node_size, subkey_ln)
    /\ validated' = validated + 1
    /\ pc' = "cleanup"
    /\ UNCHANGED <<prev, dumpvars, inputs, args, locals, calls, record, writes, heap, ret, found, reads, hiRead>>

\* line 79: the validator rejects the node: continue
CorruptNode ==
    /\ pc = "node"
    /\ ~EndOfList(node_size, next)
    /\ table.rec_ln = 0
    /\ ~ldb_validate_node(node, node_size, subkey_ln)
    /\ validated' = validated + 1
    /\ pc' = "while"
    /\ UNCHANGED <<prev, dumpvars, inputs, args, locals, calls, record, writes, heap, ret, found, reads, hiRead>>

\* lines 79-82
ValidNode ==
    /\ pc = "node"
    /\ ~EndOfList(node_size, next)
    /\ table.rec_ln = 0
    /\ ldb_validate_node(node, node_size, subkey_ln)
    /\ validated' = validated + 1
    /\ node_ptr' = 0
    /\ pc' = "group"
    /\ UNCHANGED <<prev, dumpvars, inputs, args, node, next, node_size, subkey, dataset_size, dataset_ptr,
                   records, done, calls, record, writes, heap, ret, found, reads, hiRead>>

\* the decoder's reads of a group header at node_ptr: the dataset size, and the
\* subkey when it is compared
HeaderReads ==
    Max(hiRead, node_ptr + subkey_ln + 1)

\* lines 84-98, key_matched: enter the dataset
GroupMatched ==
    /\ pc = "group"
    /\ GroupLoop(node_ptr, node_size, done)
    /\ KeyMatched(skip_subkey, subkey_ln, node, node_ptr, key)
    /\ subkey' = node_ptr
    /\ dataset_size' = uint16_read(node, node_ptr + subkey_ln)
    /\ node_ptr' = node_ptr + subkey_ln + 2
    /\ dataset_ptr' = 0
    /\ hiRead' = HeaderReads
    /\ pc' = "record"
    /\ UNCHANGED <<prev, dumpvars, inputs, args, node, next, node_size, records, done,
                   calls, record, writes, heap, ret, found, reads, validated>>

\* lines 84-98 and 119, not key_matched: step over the dataset
GroupSkipped ==
    /\ pc = "group"
    /\ GroupLoop(node_ptr, node_size, done)
    /\ ~KeyMatched(skip_subkey, subkey_ln, node, node_ptr, key)
    /\ subkey' = node_ptr
    /\ dataset_size' = uint16_read(node, node_ptr + subkey_ln)
    /\ node_ptr' = node_ptr + subkey_ln + 2 + uint16_read(node, node_ptr + subkey_ln)
    /\ hiRead' = HeaderReads
    /\ UNCHANGED <<prev, dumpvars, inputs, args, pc, node, next, node_size, dataset_ptr, records, done,
                   calls, record, writes, heap, ret, found, reads, validated>>

\* line 84: the group loop ends
GroupsDone ==
    /\ pc = "group"
    /\ ~GroupLoop(node_ptr, node_size, done)
    /\ pc' = "while"
    /\ UNCHANGED <<prev, dumpvars, inputs, args, locals, effects>>

\* lines 102-115, record_size + 32 < LDB_MAX_REC_LN: the record goes to the handler
RecordDelivered ==
    /\ pc = "record"
    /\ RecordLoop(dataset_ptr, dataset_size)
    /\ LET record_size == uint16_read(node, node_ptr + dataset_ptr) IN
        /\ RecordFits(record_size)
        /\ \E r \in BOOLEAN :
              Invoke(FALSE, subkey, subkey_ln, node_ptr + dataset_ptr + 2, record_size, r)
        /\ dataset_ptr' = RecordEnd(dataset_ptr, record_size)
    /\ hiRead' = Max(hiRead, node_ptr + dataset_ptr + 1)
    /\ UNCHANGED <<prev, dumpvars, inputs, args, pc, node, next, node_size, node_ptr, subkey, dataset_size,
                   heap, ret, found, reads, validated>>

\* lines 102-115, otherwise: the record is dropped
RecordDropped ==
    /\ pc = "record"
    /\ RecordLoop(dataset_ptr, dataset_size)
    /\ LET record_size == uint16_read(node, node_ptr + dataset_ptr) IN
        /\ ~RecordFits(record_size)
        /\ dataset_ptr' = RecordEnd(dataset_ptr, record_size)
    /\ hiRead' = Max(hiRead, node_ptr + dataset_ptr + 1)
    /\ UNCHANGED <<prev, dumpvars, inputs, args, pc, node, next, node_size, node_ptr, subkey, dataset_size,
                   records, done, calls, record, writes, heap, ret, found, reads, validated>>

\* lines 102 and 119: the record loop ends, the cursor moves to the end of the dataset
DatasetDone ==
    /\ pc = "record"
    /\ ~RecordLoop(dataset_ptr, dataset_size)
    /\ node_ptr' = node_ptr + dataset_size
    /\ pc' = "group"
    /\ UNCHANGED <<prev, dumpvars, inputs, args, node, next, node_size, subkey, dataset_size, dataset_ptr,
                   records, done, effects>>

\* line 122: another node
NextNode ==
    /\ pc = "while"
    /\ LoopAgain(next, done)
    /\ pc' = "read"
    /\ UNCHANGED <<prev, dumpvars, inputs, args, locals, effects>>

\* line 122: the chain loop ends
LeaveLoop ==
    /\ pc = "while"
    /\ ~LoopAgain(next, done)
    /\ pc' = "cleanup"
    /\ UNCHANGED <<prev, dumpvars, inputs, args, locals, effects>>

\* the cleanup made whether or not a sector was given
ReleaseAlways(h, sec) ==
    [h EXCEPT !.frees = @ + 1, !.closes = @ + 1]

\* the node buffer freed and the file left open
ReleaseBufferOnly(h, sec) ==
    IF sec THEN h ELSE [h EXCEPT !.frees = @ + 1]

\* lines 124-128: without a sector, free(node) and fclose(ldb_sector)
Release(h, sec) ==
    IF sec THEN h ELSE [h EXCEPT !.frees = @ + 1, !.closes = @ + 1]

\* lines 124-130, and line 195 when ldb_key_exists made the call
Return ==
    /\ pc = "cleanup"
    /\ heap' = Release(heap, sector)
    /\ ret' = records
    /\ found' = IF api = "key_exists" THEN KeyExistsResult(records) ELSE found
    /\ pc' = "returned"
    /\ UNCHANGED <<prev, dumpvars, inputs, args, locals, calls, record, writes, reads, validated, hiRead>>

Decode ==
    \/ ReadNode \/ EndOfChain \/ FixedNode \/ CorruptNode \/ ValidNode
    \/ GroupMatched \/ GroupSkipped \/ GroupsDone
    \/ RecordDelivered \/ RecordDropped \/ DatasetDone
    \/ NextNode \/ LeaveLoop \/ Return

(***************************************************************************)
(* Entry points                                                            *)
(***************************************************************************)
\* a caller's ldb_fetch_recordset(sector, table, key, skip_subkey, handler, ptr)
Fetch ==
    /\ pc = "idle"
    /\ \E sec \in BOOLEAN, skip \in BOOLEAN, opened \in BOOLEAN, img \in ImagesOf(key[1]) :
          Enter("fetch", sec, IF sec THEN img ELSE NoSector, skip, "any", opened)
    /\ UNCHANGED <<inputs, dumpvars, prev>>

\* line 166: ldb_get_first_record(table, key, void_ptr)
ldb_get_first_record ==
    /\ pc = "idle"
    /\ \E opened \in BOOLEAN :
          Enter("get_first_record", FALSE, NoSector, FALSE, "ldb_get_first_record_handler", opened)
    /\ UNCHANGED <<inputs, dumpvars, prev>>

\* line 195: ldb_key_exists(table, key), whose result is ret > 0
ldb_key_exists ==
    /\ pc = "idle"
    /\ \E opened \in BOOLEAN :
          Enter("key_exists", FALSE, NoSector, FALSE, "ldb_key_exists_handler", opened)
    /\ UNCHANGED <<inputs, dumpvars, prev>>

\* no earlier call to compare with
NoCall == [made |-> FALSE, sector |-> FALSE, calls |-> <<>>, ret |-> 0]

\* no call made yet
Idle ==
    /\ api = "none"
    /\ sector = FALSE
    /\ skip_subkey = FALSE
    /\ handler = "any"
    /\ pc = "idle"
    /\ node = <<>>
    /\ next = 0
    /\ node_size = 0
    /\ node_ptr = 0
    /\ subkey = 0
    /\ dataset_size = 0
    /\ dataset_ptr = 0
    /\ records = 0
    /\ done = FALSE
    /\ calls = <<>>
    /\ record = CallerBuffer
    /\ writes = 0
    /\ heap = [allocs |-> 0, frees |-> 0, opens |-> 0, closes |-> 0]
    /\ ret = 0
    /\ found = "unknown"
    /\ reads = 0
    /\ validated = 0
    /\ hiRead = 0 - 1
    /\ prev = NoCall

\* ldb_dump not running
NoDump ==
    /\ shards = {}
    /\ mapbits = {}
    /\ dpc = "idle"
    /\ k0 = 0
    /\ kidx = 0 - 1
    /\ live = {}
    /\ image = NoSector
    /\ dlog = <<>>
    /\ hits = <<>>
    /\ loads = 0
    /\ flushes = 0

Init ==
    /\ table \in Tables
    /\ key \in KeysOf(table)
    /\ db \in { [p \in {PrimaryKey} |-> c] : c \in Chains(table) }
    /\ Idle
    /\ NoDump

Next == Fetch \/ ldb_get_first_record \/ ldb_key_exists \/ Decode

Spec == Init /\ [][Next]_vars

(***************************************************************************)
(* ldb_key_exists followed by a counting decode of the same key            *)
(***************************************************************************)
\* after ldb_key_exists returned: the same key decoded with subkey filtering and a
\* handler that never stops, the backing store opening as it did before
CountAfterExists ==
    /\ pc = "returned"
    /\ api = "key_exists"
    /\ Enter("fetch", FALSE, NoSector, FALSE, "never_stop", reads > 0)
    /\ UNCHANGED <<inputs, dumpvars, prev>>

NextExists == ldb_key_exists \/ CountAfterExists \/ Decode

SpecExists == Init /\ [][NextExists]_vars

(***************************************************************************)
(* The same decode made from the file and from a sector image              *)
(***************************************************************************)
\* a caller's ldb_fetch_recordset on a backing store that opens
FirstCall ==
    /\ pc = "idle"
    /\ \E sec \in BOOLEAN, skip \in BOOLEAN, img \in ImagesOf(key[1]) :
          Enter("fetch", sec, IF sec THEN img ELSE NoSector, skip, "any", TRUE)
    /\ UNCHANGED <<inputs, dumpvars, prev>>

\* after it returned: the same call with the same handler, the node taken from the
\* other source (file instead of sector image, sector image instead of file)
OtherMode ==
    /\ pc = "returned"
    /\ ~prev.made
    /\ prev' = [made |-> TRUE, sector |-> sector, calls |-> calls, ret |-> ret]
    /\ \E img \in ImagesOf(key[1]) :
          Enter("fetch", ~sector, IF sector THEN NoSector ELSE img, skip_subkey, "as_before", TRUE)
    /\ UNCHANGED <<inputs, dumpvars>>

NextModes == FirstCall \/ OtherMode \/ Decode

SpecModes == Init /\ [][NextModes]_vars

(***************************************************************************)
(* ldb_dump                                                                *)
(***************************************************************************)
\* the primary keys the scan is checked on, and the leading bytes that may have a sector
DumpKeys == { <<0, 0, 0, 1>>, <<0, 255, 255, 255>>, <<255, 0, 0, 0>>, <<1, 0, 1, 0>> }

DumpShards == { 0, 255 }

\* what is stored under key k when it holds data
DumpChain(t, k) ==
    IF t.rec_ln # 0 THEN <<RawNode("fixed", <<1, 2, 3, 4>>)>>
    ELSE IF k[4] = 1
    THEN <<WfNode(<<G(SubkeyLn(t), 1, <<P1, P2>>), G(SubkeyLn(t), 2, <<P2, P1>>)>>)>>
    ELSE IF k[4] = 255
    THEN <<RawNode("badgroup", Sk(SubkeyLn(t), 1) \o <<0, 9, 0, 1, 7>>),
           WfNode(<<G(SubkeyLn(t), 2, <<POver, P1>>)>>)>>
    ELSE <<WfNode(<<G(SubkeyLn(t), 1, <<PMax>>)>>)>>

\* position of (k1,k2,k3) in the order of the three nested loops, lines 37-39
LoopIndex(k) == (k[2] * (LastByte + 1) + k[3]) * (LastByte + 1) + k[4]

\* ldb_map_pointer_pos(k) is nonzero
Probe(k) == k \in mapbits

\* the keys of shard b the loops still reach after position idx and that the map reports
Ahead(b, idx) == { k \in DumpKeys : k[1] = b /\ LoopIndex(k) > idx /\ Probe(k) }

\* the loops taken backwards
NextProbedDescending(b, idx) ==
    CHOOSE k \in Ahead(b, idx) : \A o \in Ahead(b, idx) : LoopIndex(o) <= LoopIndex(k)

\* lines 37-45: the next key of shard b, after position idx, at which the probe succeeds
NextProbed(b, idx) ==
    CHOOSE k \in Ahead(b, idx) : \A o \in Ahead(b, idx) : LoopIndex(k) <= LoopIndex(o)

\* line 26
DumpStart ==
    /\ dpc = "idle"
    /\ pc = "idle"
    /\ k0' = 0
    /\ dpc' = "load"
    /\ UNCHANGED <<prev, inputs, args, pc, locals, effects, shards, mapbits, image, kidx, live, dlog, hits,
                   loads, flushes>>

\* lines 31-32: ldb_load_sector returns the sector image of k0
LoadSector ==
    /\ dpc = "load"
    /\ k0 \in shards
    /\ loads' = loads + 1
    /\ live' = live \cup { k0 }
    /\ image' \in ImagesOf(k0)
    /\ kidx' = 0 - 1
    /\ dpc' = "scan"
    /\ UNCHANGED <<prev, inputs, args, pc, locals, effects, shards, mapbits, k0, dlog, hits, flushes>>

\* lines 31-32: ldb_load_sector returns NULL
LoadEmpty ==
    /\ dpc = "load"
    /\ k0 \notin shards
    /\ loads' = loads + 1
    /\ dpc' = "next"
    /\ UNCHANGED <<prev, inputs, args, pc, locals, effects, shards, mapbits, image, k0, kidx, live, dlog,
                   hits, flushes>>

\* lines 37-48: the loops run up to the next key the map reports, and the decoder
\* is called on the sector with subkeys not filtered
ScanKey ==
    /\ dpc = "scan"
    /\ Ahead(k0, kidx) # {}
    /\ LET k == NextProbed(k0, kidx) IN
        /\ key' = k
        /\ kidx' = LoopIndex(k)
        /\ dlog' = Append(dlog, [key |-> k, skip_subkey |-> TRUE, sector |-> k0,
                                  held |-> live])
    /\ Enter("dump", TRUE, image, TRUE, "any", TRUE)
    /\ dpc' = "decode"
    /\ UNCHANGED <<prev, table, db, shards, mapbits, k0, live, image, hits, loads, flushes>>

\* line 48: ldb_fetch_recordset has returned; its count is not used
DecodeReturned ==
    /\ dpc = "decode"
    /\ pc = "returned"
    /\ hits' = IF calls # <<>> THEN Append(hits, key) ELSE hits
    /\ dpc' = "scan"
    /\ UNCHANGED <<prev, inputs, args, pc, locals, effects, shards, mapbits, image, k0, kidx, live, dlog,
                   loads, flushes>>

\* the loops end and the sector is not freed
FreeSectorLeaked ==
    /\ dpc = "scan"
    /\ Ahead(k0, kidx) = {}
    /\ dpc' = "next"
    /\ UNCHANGED <<prev, inputs, args, pc, locals, effects, shards, mapbits, image, k0, kidx, live, dlog, hits,
                   loads, flushes>>

\* lines 37-51: the loops end, free(sector)
FreeSector ==
    /\ dpc = "scan"
    /\ Ahead(k0, kidx) = {}
    /\ live' = live \ { k0 }
    /\ image' = NoSector
    /\ dpc' = "next"
    /\ UNCHANGED <<prev, inputs, args, pc, locals, effects, shards, mapbits, k0, kidx, dlog, hits,
                   loads, flushes>>

\* the counter incremented before the test: ++k0 < 255
MoreShardsPreIncrement(b) == b + 1 < LastByte

\* line 53, k0++ < 255 on the uint8_t k0
MoreShards(b) == b < LastByte

\* line 53: another shard
NextShard ==
    /\ dpc = "next"
    /\ MoreShards(k0)
    /\ k0' = (k0 + 1) % (LastByte + 1)
    /\ dpc' = "load"
    /\ UNCHANGED <<prev, inputs, args, pc, locals, effects, shards, mapbits, image, kidx, live, dlog, hits,
                   loads, flushes>>

\* lines 53-54: the scan ends, fflush(stdout)
Flush ==
    /\ dpc = "next"
    /\ ~MoreShards(k0)
    /\ k0' = (k0 + 1) % (LastByte + 1)
    /\ flushes' = flushes + 1
    /\ dpc' = "done"
    /\ UNCHANGED <<prev, inputs, args, pc, locals, effects, shards, mapbits, image, kidx, live, dlog, hits,
                   loads>>

InitDump ==
    /\ table \in Tables
    /\ key = PrimaryKey
    /\ shards \in SUBSET DumpShards
    /\ mapbits \in SUBSET DumpKeys
    /\ \E held \in SUBSET { k \in mapbits : k[1] \in shards } :
          db = [k \in held |-> DumpChain(table, k)]
    /\ Idle
    /\ dpc = "idle"
    /\ k0 = 0
    /\ kidx = 0 - 1
    /\ live = {}
    /\ image = NoSector
    /\ dlog = <<>>
    /\ hits = <<>>
    /\ loads = 0
    /\ flushes = 0

\* with subkeys never filtered no group is stepped over
NextDump ==
    \/ DumpStart \/ LoadSector \/ LoadEmpty \/ ScanKey \/ DecodeReturned \/ FreeSector
    \/ NextShard \/ Flush
    \/ ReadNode \/ EndOfChain \/ FixedNode \/ CorruptNode \/ ValidNode
    \/ GroupMatched \/ GroupsDone
    \/ RecordDelivered \/ RecordDropped \/ DatasetDone
    \/ NextNode \/ LeaveLoop \/ Return

SpecDump == InitDump /\ [][NextDump]_vars

(***************************************************************************)
(* Properties                                                              *)
(***************************************************************************)
\* the chain stored for the key queried
Chain == StoreOf(key)

\* key[4 .. 4 + subkey_ln)
KeySubkey == Lit(SubSeq(key, LDB_KEY_LN + 1, LDB_KEY_LN + subkey_ln))

\* no invocation of this call returned stop
NoStop == \A i \in 1..Len(calls) : ~calls[i].ret

\* the call got past ldb_open and has returned
Decoded == pc = "returned" /\ reads > 0

\* what the handler was given, invocation by invocation
Given(c) == [subkey |-> c.subkey_bytes, payload |-> c.payload, datalen |-> c.datalen]

Delivered == [i \in 1..Len(calls) |-> Given(calls[i])]

\* the same for the invocations made on the j-th node read
DeliveredOf(j) ==
    LET own == SelectSeq(calls, LAMBDA c : c.read = j)
    IN  [i \in 1..Len(own) |-> Given(own[i])]

\* the records a node's layout says a decode without stop delivers: those of the
\* groups the key selects, in order, but for the oversized ones
GroupWanted(g) == skip_subkey \/ subkey_ln = 0 \/ Lit(g.subkey) = KeySubkey

RECURSIVE ExpRecs(_, _)
ExpRecs(sk, recs) ==
    IF recs = <<>> THEN <<>>
    ELSE (IF BufLen(Head(recs)) + 32 < LDB_MAX_REC_LN
          THEN <<[subkey |-> Lit(sk), payload |-> Head(recs), datalen |-> BufLen(Head(recs))]>>
          ELSE <<>>) \o ExpRecs(sk, Tail(recs))

RECURSIVE ExpGroups(_)
ExpGroups(groups) ==
    IF groups = <<>> THEN <<>>
    ELSE (IF GroupWanted(Head(groups))
          THEN ExpRecs(Head(groups).subkey, Head(groups).recs)
          ELSE <<>>) \o ExpGroups(Tail(groups))

ExpNode(n) == IF n.kind = "wf" THEN ExpGroups(n.groups) ELSE <<>>

RECURSIVE ExpChain(_)
ExpChain(chain) ==
    IF chain = <<>> THEN <<>> ELSE ExpNode(Head(chain)) \o ExpChain(Tail(chain))

\* every node of the chain is laid out as the format says, or rejected by the validator
Regular(chain) == \A j \in 1..Len(chain) : chain[j].kind \in { "wf", "badgroup" }

\* C1 (as claimed): once the handler has returned stop it is not invoked again in
\* that call, and a handler stopping on its first invocation makes the call return 1.
C1_StopEndsDecoding ==
    /\ \A i \in 1..Len(calls) : calls[i].ret => i = Len(calls)
    /\ (pc = "returned" /\ Len(calls) >= 1 /\ calls[1].ret) => ret = 1

\* C2: the count, and the value returned, is the number of handler invocations of
\* the call, whatever the handler returned; nothing else adds to it.
C2_CountIsInvocations ==
    /\ records = Len(calls)
    /\ pc = "returned" => ret = Len(calls)

C2_Witness ==
    /\ pc = "returned"
    /\ ret >= 2
    /\ \E i, j \in 1..Len(calls) : calls[i].ret /\ ~calls[j].ret
    /\ \E j \in 1..Len(Chain) : Chain[j].kind = "badgroup"

\* C3: in a variable-length table the handler only gets records of groups that
\* match (subkey equal to key[4 ..) when filtering applies, any group otherwise),
\* and a decode that is not stopped delivers every record of every matching group,
\* in order, with its payload bytes and length, unmatched groups being stepped over.
C3_SubkeyFiltering ==
    table.rec_ln = 0 =>
        /\ \A i \in 1..Len(calls) :
              (~skip_subkey /\ subkey_ln # 0) => calls[i].subkey_bytes = KeySubkey
        /\ (Decoded /\ NoStop /\ Regular(Chain)) => Delivered = ExpChain(Chain)

\* two groups of two records, filtering on, the key matching only the second group
C3_Witness ==
    /\ Decoded
    /\ NoStop
    /\ ~skip_subkey
    /\ subkey_ln # 0
    /\ Len(Chain) = 1
    /\ Chain[1].kind = "wf"
    /\ Len(Chain[1].groups) = 2
    /\ ret = 2
    /\ calls[1].subkey > 0
    /\ calls[1].payload = P2
    /\ calls[2].payload = P1

\* the group of a node layout that starts at offset off, groups starting at base
RECURSIVE GroupAt(_, _, _)
GroupAt(groups, base, off) ==
    IF base = off THEN Head(groups)
    ELSE GroupAt(Tail(groups), base + BufLen(EncGroup(Head(groups))), off)

\* the records of a dataset layout that fit, with the offset of each payload in the
\* dataset, rel being the offset of the first record's length prefix
RECURSIVE ExpSlots(_, _)
ExpSlots(rel, recs) ==
    IF recs = <<>> THEN <<>>
    ELSE (IF BufLen(Head(recs)) + 32 < LDB_MAX_REC_LN
          THEN <<[at |-> rel + 2, payload |-> Head(recs), datalen |-> BufLen(Head(recs))]>>
          ELSE <<>>) \o ExpSlots(rel + 2 + BufLen(Head(recs)), Tail(recs))

\* the invocations made for the dataset being walked, payload offsets taken in it
SlotsGiven ==
    LET own == SelectSeq(calls, LAMBDA c : c.read = reads /\ c.ds_from = node_ptr)
    IN  [i \in 1..Len(own) |-> [at |-> own[i].data - node_ptr, payload |-> own[i].payload,
                                 datalen |-> own[i].datalen]]

\* the record loop of a dataset of a well laid out node has ended
DatasetWalked ==
    /\ table.rec_ln = 0
    /\ pc = "record"
    /\ ~RecordLoop(dataset_ptr, dataset_size)
    /\ Chain[reads].kind = "wf"

\* C4: no record with length + 32 >= LDB_MAX_REC_LN reaches the handler; once a
\* matched dataset is walked, the handler got exactly its records with
\* length + 32 < LDB_MAX_REC_LN, each at its own offset with its own length and
\* bytes, also after a dropped one, and the cursor is at the end of the dataset.
C4_OversizedDropped ==
    /\ table.rec_ln = 0 => \A i \in 1..Len(calls) : calls[i].datalen + 32 < LDB_MAX_REC_LN
    /\ DatasetWalked =>
          /\ dataset_ptr = dataset_size
          /\ SlotsGiven = ExpSlots(0, GroupAt(Chain[reads].groups, 0, subkey).recs)

\* a dataset holding an oversized record and then a short one has been walked
C4_Witness ==
    /\ DatasetWalked
    /\ GroupAt(Chain[reads].groups, 0, subkey).recs = <<POver, P1>>
    /\ Len(SlotsGiven) = 1
    /\ SlotsGiven[1].at = 2 + BufLen(POver) + 2
    /\ SlotsGiven[1].payload = P1

\* C5: a node the validator rejects gets no handler invocation and no read by the
\* decoder; the chain walk goes on after it, and a well laid out node following it
\* has all its matching records delivered.
C5_CorruptNodeSkipped ==
    table.rec_ln = 0 =>
        /\ \A i \in 1..Len(calls) : Chain[calls[i].read].kind # "badgroup"
        /\ (reads \in 1..Len(Chain) /\ Chain[reads].kind = "badgroup")
              => (pc \in { "node", "while", "read", "cleanup", "returned" } /\ hiRead < 0)
        /\ (Decoded /\ NoStop) =>
              /\ reads = Max(1, Len(Chain))
              /\ \A j \in 2..Len(Chain) :
                    (Chain[j - 1].kind = "badgroup" /\ Chain[j].kind = "wf")
                        => DeliveredOf(j) = ExpNode(Chain[j])

\* a rejected node followed by a node whose records were delivered
C5_Witness ==
    /\ Decoded
    /\ NoStop
    /\ table.rec_ln = 0
    /\ Len(Chain) = 2
    /\ Chain[1].kind = "badgroup"
    /\ Chain[2].kind = "wf"
    /\ validated = 2
    /\ ret = 2
    /\ \A i \in 1..Len(calls) : calls[i].read = 2

\* C6 (as claimed): in a node that passed validation every byte the decoder reads
\* lies below node_size, and every payload handed to the handler lies inside its
\* dataset and inside the node.
C6_ReadsInsideNode ==
    table.rec_ln = 0 =>
        /\ reads > 0 => hiRead < node_size
        /\ \A i \in 1..Len(calls) :
              /\ calls[i].ds_from <= calls[i].data
              /\ calls[i].data + calls[i].datalen <= calls[i].ds_to
              /\ calls[i].ds_to <= BufLen(Chain[calls[i].read].bytes)

\* C7: in a table with rec_ln > 0 the handler is invoked once per node read, with
\* the whole node and node_size, a null subkey and subkey length 0; the validator is
\* not consulted; the count is the number of nodes read.
C7_FixedNodeWhole ==
    table.rec_ln # 0 =>
        /\ validated = 0
        /\ \A i \in 1..Len(calls) :
              /\ calls[i].read = i
              /\ calls[i].subkey_null
              /\ calls[i].subkey_ln = 0
              /\ calls[i].data = 0
              /\ calls[i].datalen = BufLen(Chain[i].bytes)
              /\ calls[i].payload = Chain[i].bytes
        /\ Decoded => ret = reads - (IF EndOfList(node_size, next) THEN 1 ELSE 0)

\* one node of two records: one invocation, count 1
C7_Witness ==
    /\ Decoded
    /\ table.rec_ln # 0
    /\ Len(Chain) = 1
    /\ BufLen(Chain[1].bytes) = 2 * table.rec_ln
    /\ ret = 1
    /\ calls[1].datalen = 2 * table.rec_ln

\* C8: ldb_key_exists answers yes exactly when the decode of the same key with
\* subkey filtering and a handler that never stops counts at least one record.
C8_ExistsIffCounted ==
    (api = "fetch" /\ pc = "returned") => ((found = "yes") <=> (ret > 0))

\* the key exists and the full decode counts more than the one record
C8_Witness ==
    /\ api = "fetch"
    /\ pc = "returned"
    /\ found = "yes"
    /\ ret > 1

\* the first invocation of this call with a nonempty payload, 0 if there is none
FirstNonempty ==
    LET S == { i \in 1..Len(calls) : calls[i].datalen # 0 }
    IN  IF S = {} THEN 0 ELSE CHOOSE i \in S : \A j \in S : i <= j

\* C9 (as claimed): one call of ldb_get_first_record writes the caller's buffer at
\* most once, with the length and payload of the first nonempty record delivered,
\* and leaves it unchanged when there is none.
C9_FirstRecordOnly ==
    api = "get_first_record" =>
        /\ writes <= 1
        /\ pc = "returned" =>
              record = IF FirstNonempty = 0 THEN CallerBuffer
                       ELSE Overlay(Cat(uint32_bytes(calls[FirstNonempty].datalen),
                                        calls[FirstNonempty].payload), CallerBuffer)

\* a before b in the lexicographic order of the four key bytes
LexLess(a, b) ==
    \E i \in 1..LDB_KEY_LN : a[i] < b[i] /\ \A j \in 1..(i - 1) : a[j] = b[j]

RECURSIVE SortKeys(_)
SortKeys(S) ==
    IF S = {} THEN <<>>
    ELSE LET m == CHOOSE k \in S : \A o \in S \ { k } : LexLess(k, o)
         IN  <<m>> \o SortKeys(S \ { m })

IsPrefix(a, b) == Len(a) <= Len(b) /\ a = SubSeq(b, 1, Len(a))

\* the keys ldb_dump has to decode: map reports data, sector of the shard loaded
ToDecode == { k \in DumpKeys : Probe(k) /\ k[1] \in shards }

\* C10: ldb_dump calls the decoder once for each key whose shard has a sector and
\* that the map reports, for no other key, in ascending order of the four key bytes,
\* each time with subkey filtering skipped and the loaded sector of that shard; the
\* handler is reached only for keys holding data, in that order.
C10_DumpScanOrder ==
    /\ IsPrefix([i \in 1..Len(dlog) |-> dlog[i].key], SortKeys(ToDecode))
    /\ \A i \in 1..Len(dlog) :
          /\ dlog[i].skip_subkey
          /\ dlog[i].sector = dlog[i].key[1]
          /\ dlog[i].sector \in dlog[i].held
    /\ dpc = "decode" => (sector /\ skip_subkey /\ key = dlog[Len(dlog)].key)
    /\ IsPrefix(hits, SortKeys(DOMAIN db))
    /\ dpc = "done" =>
          /\ Len(dlog) = Cardinality(ToDecode)
          /\ hits = SortKeys(DOMAIN db)

\* a scan over a shard holding data at (0,0,1) and (255,255,255) only, the map
\* reporting a further key
C10_Witness ==
    /\ dpc = "done"
    /\ DOMAIN db = { <<0, 0, 0, 1>>, <<0, 255, 255, 255>> }
    /\ hits = << <<0, 0, 0, 1>>, <<0, 255, 255, 255>> >>
    /\ Len(dlog) = 3

\* load attempts made so far, against the position of ldb_dump
LoadsInStep ==
    /\ dpc = "idle" => loads = 0
    /\ dpc = "load" => loads = k0
    /\ dpc \in { "scan", "decode", "next" } => loads = k0 + 1
    /\ dpc = "done" => (loads = LastByte + 1 /\ k0 = 0)
    /\ flushes = (IF dpc = "done" THEN 1 ELSE 0)

\* order of rank vectors of equal length: the first differing component is smaller
RankLess(a, b) ==
    \E i \in 1..Len(a) : a[i] < b[i] /\ \A j \in 1..(i - 1) : a[j] = b[j]

PcRank ==
    CASE pc = "idle" -> 7
      [] pc = "record" -> 6
      [] pc = "group" -> 5
      [] pc = "while" -> 4
      [] pc = "read" -> 3
      [] pc = "cleanup" -> 2
      [] OTHER -> 1

\* what is left of one ldb_fetch_recordset call: node reads, bytes of the node
\* before the group cursor, bytes of the dataset before the record cursor, position
DecodeRank ==
    << Max(1, Len(Chain)) + 1 - reads,
       CASE pc = "node" -> node_size + 1
         [] pc \in { "group", "record" } -> Max(0, node_size - node_ptr)
         [] OTHER -> 0,
       IF pc = "record" THEN Max(0, dataset_size - dataset_ptr) ELSE 0,
       PcRank >>

DpcRank ==
    CASE dpc = "idle" -> 6
      [] dpc = "decode" -> 5
      [] dpc = "scan" -> 4
      [] dpc = "next" -> 3
      [] dpc = "load" -> 2
      [] OTHER -> 1

\* what is left of ldb_dump: shards to load, keys to decode in the shard, position,
\* and what is left of the decoder call under way
DumpRank ==
    << LastByte + 1 - loads,
       IF dpc \in { "scan", "decode" } THEN Cardinality(Ahead(k0, kidx)) ELSE 0,
       DpcRank >> \o DecodeRank

\* the guards of the decoder's steps at its position: one of them holds
DecodeCanStep ==
    CASE pc = "read" -> TRUE
      [] pc = "node" ->
            \/ EndOfList(node_size, next)
            \/ table.rec_ln # 0
            \/ ~ldb_validate_node(node, node_size, subkey_ln)
            \/ ldb_validate_node(node, node_size, subkey_ln)
      [] pc = "group" ->
            \/ ~GroupLoop(node_ptr, node_size, done)
            \/ KeyMatched(skip_subkey, subkey_ln, node, node_ptr, key)
            \/ ~skip_subkey
      [] pc = "record" ->
            \/ ~RecordLoop(dataset_ptr, dataset_size)
            \/ RecordFits(uint16_read(node, node_ptr + dataset_ptr))
            \/ ~RecordFits(uint16_read(node, node_ptr + dataset_ptr))
      [] pc = "while" -> LoopAgain(next, done) \/ ~LoopAgain(next, done)
      [] pc = "cleanup" -> TRUE
      [] OTHER -> FALSE

\* the guards of ldb_dump's steps at its position: one of them holds
DumpCanStep ==
    CASE dpc = "idle" -> pc = "idle"
      [] dpc = "load" -> k0 \in shards \/ k0 \notin shards
      [] dpc = "scan" -> Ahead(k0, kidx) # {} \/ Ahead(k0, kidx) = {}
      [] dpc = "decode" -> pc = "returned" \/ DecodeCanStep
      [] dpc = "next" -> MoreShards(k0) \/ ~MoreShards(k0)
      [] OTHER -> FALSE

\* ldb_dump can take a step until it has flushed, and its rank is a vector of naturals
DumpGoesOn ==
    /\ \A i \in 1..Len(DumpRank) : DumpRank[i] >= 0
    /\ dpc # "done" => DumpCanStep

\* C11: ldb_dump ends (every step lowers a rank that cannot fall forever, and a step
\* is possible until the flush), after one load attempt for each k0 = 0 .. 255 in
\* ascending order (the n-th attempt is for k0 = n - 1, 256 in all) and one flush,
\* made after the last shard; no empty shard, empty decode or handler stop ends it.
C11_DumpFullScan ==
    /\ []LoadsInStep
    /\ []DumpGoesOn
    /\ [][RankLess(DumpRank', DumpRank)]_vars

\* the scan ended although a shard was empty, a decode reached no record and the
\* handler stopped the last decode
C11_Witness ==
    /\ dpc = "done"
    /\ loads = LastByte + 1
    /\ flushes = 1
    /\ shards # {}
    /\ Len(dlog) > Len(hits)
    /\ hits # <<>>
    /\ done

\* C12: in a call without a pre-loaded buffer whose backing store opened, the scratch
\* node buffer and the file handle are each released exactly once, and no sooner
\* than the return, whatever ended the walk (end of chain, stop, corrupt node).
C12_ReleasedOnce ==
    (api # "none" /\ ~sector /\ heap.opens = 1) =>
        /\ heap.allocs = 1
        /\ heap.frees = (IF pc = "returned" THEN 1 ELSE 0)
        /\ heap.closes = (IF pc = "returned" THEN 1 ELSE 0)

\* a call on the file that returned after the validator rejected the last node
C12_Witness ==
    /\ pc = "returned"
    /\ ~sector
    /\ heap = [allocs |-> 1, frees |-> 1, opens |-> 1, closes |-> 1]
    /\ reads = Len(Chain)
    /\ reads > 1
    /\ Chain[reads].kind = "badgroup"
    /\ validated = reads
    /\ calls # <<>>

\* C13: a call without a pre-loaded buffer whose open fails returns 0 at once: the
\* handler is not invoked, no node is read, nothing is allocated, opened or released.
C13_OpenFailure ==
    [][(pc = "idle" /\ api' # "none" /\ ~sector' /\ heap'.opens = heap.opens) =>
          /\ pc' = "returned"
          /\ ret' = 0
          /\ calls' = <<>>
          /\ reads' = 0
          /\ validated' = 0
          /\ heap' = heap]_vars

\* the open failed for a key that holds records
C13_Witness ==
    /\ pc = "returned"
    /\ api = "fetch"
    /\ ~sector
    /\ heap.opens = 0
    /\ ret = 0
    /\ Len(Chain) > 0
    /\ Chain[1].kind = "wf"

\* C14: a read that returns size 0 and next 0 ends the chain walk with the count
\* accumulated so far and no further handler invocation or read; when it is the
\* first read of the call, the call returns 0 and the handler was never invoked.
C14_EndOfList ==
    /\ [][(pc = "node" /\ node_size = 0 /\ next = 0) =>
              /\ pc' = "cleanup"
              /\ UNCHANGED <<records, calls, reads, validated, record, writes>>]_vars
    /\ []((pc = "returned" /\ reads > 0 /\ node_size = 0 /\ next = 0) =>
              /\ ret = records
              /\ ret = Len(calls)
              /\ \A i \in 1..Len(calls) : calls[i].read < reads
              /\ reads = 1 => (ret = 0 /\ calls = <<>>))

\* a chain whose last node is empty: the count of the node before it is returned
C14_Witness ==
    /\ pc = "returned"
    /\ reads = 2
    /\ node_size = 0
    /\ next = 0
    /\ ret > 0
    /\ ~done

\* the key has no node at all
C14_AbsentKey ==
    /\ pc = "returned"
    /\ reads = 1
    /\ Chain = <<>>
    /\ ret = 0

\* C15: a call on a finite chain ends, whatever the nodes hold and the handler
\* answers: until it has returned a step can be taken, and every step lowers a rank
\* of naturals (reads left, bytes left in the node, bytes left in the dataset,
\* position).  A dataset-group iteration moves the node cursor on by at least
\* subkey_ln + 2 and a record iteration moves the dataset cursor on by at least 2,
\* for empty datasets and empty records too.
C15_DecoderTerminates ==
    /\ []((\A i \in 1..Len(DecodeRank) : DecodeRank[i] >= 0)
           /\ (pc \notin { "idle", "returned" } => DecodeCanStep))
    /\ [][/\ pc # "idle" => RankLess(DecodeRank', DecodeRank)
          /\ (pc = "group" /\ pc' # "while") => node_ptr' >= node_ptr + subkey_ln + 2
          /\ (pc = "record" /\ pc' = "group") => node_ptr' >= node_ptr
          /\ (pc = "record" /\ pc' = "record") => dataset_ptr' >= dataset_ptr + 2]_vars

\* a call that returned after decoding an empty record and an empty dataset
C15_Witness ==
    /\ pc = "returned"
    /\ reads = 2
    /\ \E i \in 1..Len(calls) : calls[i].datalen = 0
    /\ \E j \in 1..Len(Chain) :
          Chain[j].kind = "wf" /\ \E g \in 1..Len(Chain[j].groups) : Chain[j].groups[g].recs = <<>>

\* C16: the handler is invoked in encounter order (by node of the chain, then by
\* offset of the dataset group in the node, then by offset of the record), and the
\* index given to the n-th invocation of a call is n - 1: 0, 1, 2, ... without gap
\* or repeat, whatever was dropped, stepped over or rejected in between.
C16_EncounterOrder ==
    /\ \A i \in 1..Len(calls) : calls[i].iteration = i - 1
    /\ \A i, j \in 1..Len(calls) :
          i < j =>
              \/ calls[i].read < calls[j].read
              \/ /\ calls[i].read = calls[j].read
                 /\ calls[i].ds_from <= calls[j].ds_from
                 /\ calls[i].data < calls[j].data

\* invocations in two nodes, the first of them after an oversized record was dropped
C16_Witness ==
    /\ pc = "returned"
    /\ Len(calls) >= 3
    /\ calls[1].read = 1
    /\ calls[1].data > LDB_MAX_REC_LN - 32
    /\ calls[2].read = 2
    /\ calls[Len(calls)].read = 2
    /\ calls[Len(calls)].ds_from > calls[2].ds_from

\* C17: ldb_dump holds at most one sector image at a time.  A sector is held from
\* its load until the loops over (k1,k2,k3) have ended, is released then, once, and
\* before the next load; every decoder call is given the sector held, which is the
\* one of the key's own k0; an absent sector is not scanned and not released.
C17_OneSectorLive ==
    /\ [](/\ Cardinality(live) <= 1
          /\ live \subseteq shards
          /\ dpc \in { "scan", "decode" } => live = { k0 }
          /\ dpc \in { "idle", "load", "next", "done" } => live = {}
          /\ \A i \in 1..Len(dlog) :
                /\ dlog[i].held = { dlog[i].sector }
                /\ dlog[i].key[1] = dlog[i].sector
                /\ dlog[i].sector \in shards)
    /\ [][/\ live' # live =>
                \/ dpc = "load" /\ dpc' = "scan" /\ live = {} /\ live' = { k0 }
                \/ dpc = "scan" /\ dpc' = "next" /\ live = { k0 } /\ live' = {}
                                /\ Ahead(k0, kidx) = {}
          /\ (dpc = "load" /\ k0 \notin shards) => (dpc' = "next" /\ UNCHANGED <<live, dlog>>)
          /\ (dpc = "decode" \/ pc' # pc) => live' = live]_vars

\* both sectors were loaded, scanned and released, an absent one lying between them
C17_Witness ==
    /\ dpc = "done"
    /\ live = {}
    /\ shards = DumpShards
    /\ \E i, j \in 1..Len(dlog) : dlog[i].sector = 0 /\ dlog[j].sector = LastByte
    /\ \E k \in mapbits : k[1] \notin shards

\* C18: in a call with a pre-loaded buffer the decoder obtains one node from
\* ldb_node_read and never a further one, also when that read reported a next
\* cursor and the handler asked for more.
C18_SingleNodeWithSector ==
    (api # "none" /\ sector) => reads <= 1

\* what the handler is given in invocation c: subkey (or NULL), subkey length,
\* data, data length, iteration index
HandlerArgs(c) ==
    [subkey_null |-> c.subkey_null, subkey |-> c.subkey_bytes, subkey_ln |-> c.subkey_ln,
     data |-> c.payload, datalen |-> c.datalen, iteration |-> c.iteration]

\* C19: for the same table, key, filtering flag and handler, and the same nodes
\* (bytes, size, next cursor) from ldb_node_read, the call on a sector image and the
\* call on the file invoke the handler with the same arguments in the same order,
\* and return the same count.
C19_SameInBothModes ==
    prev.made =>
        /\ Len(calls) <= Len(prev.calls)
        /\ \A i \in 1..Len(calls) : HandlerArgs(calls[i]) = HandlerArgs(prev.calls[i])
        /\ pc = "returned" => (Len(calls) = Len(prev.calls) /\ ret = prev.ret)

\* the same, on chains whose groups the validator accepts or rejects as a whole
C19_SameOnRegularChains ==
    Regular(Chain) => C19_SameInBothModes

\* C20: a call given a sector image only borrows it.  The decoder allocates, frees,
\* opens and closes nothing, the bytes it decodes from stay as ldb_node_read gave
\* them, the stored nodes and the bytes of the image are not changed, and the image
\* is still held by ldb_dump when the call returns, whichever way the call ended.
C20_SectorBorrowed ==
    /\ []((api # "none" /\ sector) =>
              heap = [allocs |-> 0, frees |-> 0, opens |-> 0, closes |-> 0])
    /\ [][/\ db' = db
          /\ (sector /\ pc # "read" /\ pc' # "read") => node' = node
          /\ (dpc = "decode" /\ pc' # pc) =>
                (live' = live /\ live = { key[1] } /\ image' = image /\ image # NoSector)]_vars

\* a decode of ldb_dump returned on a stop of the handler, the sector still held
C20_Witness ==
    /\ dpc = "decode"
    /\ pc = "returned"
    /\ sector
    /\ done
    /\ reads = 2
    /\ validated = 2
    /\ live = { key[1] }
    /\ heap.frees = 0

====
